---------------------------- MODULE Spec2Model ----------------------------
(***************************************************************************)
(* Web Canvas Browser (main.py): the canvas item lifecycle.                *)
(*                                                                         *)
(* State: the WebPageItem objects ever created (pages), the items of the   *)
(* QGraphicsScene (scene), the toolbar's URL field (url_input), the app's  *)
(* remembered current_page, and the position of the one UI event loop:     *)
(* idle, inside menu.exec_() of show_context_menu (pc = "menu", the local  *)
(* variable item holds the hit-tested page), or inside dialog.exec_() of   *)
(* show_refresh_settings (pc = "dialog", spin_box holds the field).        *)
(* QTimer timeouts are delivered by every one of these event loops.        *)
(*                                                                         *)
(* Strings are sequences of one-character strings, so that startswith and  *)
(* concatenation are computed.  A QTimer is the sequence of its event-loop *)
(* registrations (periods in ms): stopped is << >>.  last records the      *)
(* handler that ran in the last step, with its input.                      *)
(***************************************************************************)
EXTENDS Integers, Sequences, FiniteSets, TLC

VARIABLES pages, scene, url_input, current_page, pc, item, spin_box, last

vars == <<pages, scene, url_input, current_page, pc, item, spin_box, last>>

---------------------------------------------------------------------------
(* Bounds of the model *)

MaxPages == 2        \* WebPageItem objects created in one run
CanvasWidth == 2     \* Canvas.width() in scene units
CanvasHeight == 0    \* Canvas.height() in scene units
ReloadWrap == 2      \* web_view.reload() calls are counted modulo this

---------------------------------------------------------------------------
(* Program constants *)

SpinBoxMinimum == 0
SpinBoxMaximum == 3600
MsPerSecond == 1000

None == [kind |-> "None"]
Event(op, page, arg) == [op |-> op, page |-> page, arg |-> arg]
NoPage == 0

Https == <<"h", "t", "t", "p", "s", ":", "/", "/">>
Http == <<"h", "t", "t", "p", ":", "/", "/">>

\* Texts a user types into the URL field
ExampleCom == <<"e", "x", "a", "m", "p", "l", "e", ".", "c", "o", "m">>
HttpA == Http \o <<"a">>
HttpsA == Https \o <<"a">>
HttpNoSlashes == <<"h", "t", "t", "p", ":", "a">>
UpperHttpA == <<"H", "T", "T", "P", ":", "/", "/", "a">>
EmptyText == << >>

Texts == {ExampleCom}
UrlInputs == {ExampleCom, HttpA, HttpsA, HttpNoSlashes, UpperHttpA, EmptyText}

\* Values a user tries to put into the spin box, and arguments of direct calls
TypedValues == {-1, 0, 5, 3601}
ApiSeconds == {-1, 0, 5, 3600, 3601}

Corners == {"BottomRightCorner", "BottomLeftCorner", "TopRightCorner", "TopLeftCorner"}
Buttons == {"NoButton", "LeftButton", "RightButton"}

ScenePoints == (0 .. (CanvasWidth \div 2)) \X (0 .. (CanvasHeight \div 2))

\* Pointer positions event.globalPos() of the mouse events sent to a grip
GlobalPoints == {<<0, 0>>, <<3, 3>>, <<1, 4>>}

---------------------------------------------------------------------------
(* str.startswith with a tuple of prefixes *)

startswith(s, prefixes) ==
    \E p \in prefixes : Len(s) >= Len(p) /\ SubSeq(s, 1, Len(p)) = p

(* QRect: corners are inclusive, right = x + w - 1 *)
QRect(x, y, w, h) == [x1 |-> x, y1 |-> y, x2 |-> x + w - 1, y2 |-> y + h - 1]

setBottomRight(g, p) == [g EXCEPT !.x2 = p[1], !.y2 = p[2]]
setBottomLeft(g, p) == [g EXCEPT !.x1 = p[1], !.y2 = p[2]]
setTopRight(g, p) == [g EXCEPT !.x2 = p[1], !.y1 = p[2]]
setTopLeft(g, p) == [g EXCEPT !.x1 = p[1], !.y1 = p[2]]

(* QTimer.stop and QTimer.start(msec): start kills a running registration *)
QTimerStop(t) == << >>
QTimerStart(t, msec) == <<msec>>

(* QSpinBox with setRange(0, 3600): setValue and the editor bound the value *)
QSpinBoxBound(v) ==
    IF v < SpinBoxMinimum THEN SpinBoxMinimum
    ELSE IF v > SpinBoxMaximum THEN SpinBoxMaximum
    ELSE v

---------------------------------------------------------------------------
(* WebPageItem *)

WebPageItem(url) ==
    [url |-> url,
     refresh_interval |-> 0,
     refresh_timer |-> << >>,
     pos |-> <<0, 0>>,
     geometry |-> QRect(0, 0, 2, 2),
     reloads |-> 0,
     alive |-> TRUE]

\* A deallocated item: its QTimer, container and grips died with it
Deallocated ==
    [url |-> << >>,
     refresh_interval |-> 0,
     refresh_timer |-> << >>,
     pos |-> <<0, 0>>,
     geometry |-> QRect(0, 0, 0, 0),
     reloads |-> 0,
     alive |-> FALSE]

refresh_page(p) == [p EXCEPT !.reloads = (@ + 1) % ReloadWrap]

\* Mutant: the running timer is not stopped before the new interval is used
set_refresh_interval_nostop(p, seconds) ==
    LET p1 == [p EXCEPT !.refresh_interval = seconds]
    IN  IF seconds > 0
        THEN [p1 EXCEPT !.refresh_timer = QTimerStart(@, seconds * MsPerSecond)]
        ELSE p1

\* Mutant: every call starts one more timer and leaves the old one running
set_refresh_interval_newtimer(p, seconds) ==
    LET p1 == [p EXCEPT !.refresh_interval = seconds]
    IN  IF seconds > 0
        THEN [p1 EXCEPT !.refresh_timer = Append(@, seconds * MsPerSecond)]
        ELSE [p1 EXCEPT !.refresh_timer = << >>]

\* Mutant: the interval is stored and the old timer stopped, none is started
set_refresh_interval_nostart(p, seconds) ==
    LET p1 == [p EXCEPT !.refresh_interval = seconds]
    IN  [p1 EXCEPT !.refresh_timer = QTimerStop(@)]

set_refresh_interval(p, seconds) ==
    LET p1 == [p EXCEPT !.refresh_interval = seconds]
        p2 == [p1 EXCEPT !.refresh_timer = QTimerStop(@)]
    IN  IF seconds > 0
        THEN [p2 EXCEPT !.refresh_timer = QTimerStart(@, seconds * MsPerSecond)]
        ELSE p2

---------------------------------------------------------------------------
(* SizeGrip *)

SizeGripOf(i, corner) == [kind |-> "SizeGrip", page |-> i, corner |-> corner]

\* QObject.parent(): a grip's parent is the container; the container was made
\* by QWidget() and setWidget() embeds it as a top-level widget, parent None
QObjectParent(w) ==
    IF w.kind = "SizeGrip" THEN [kind |-> "container", page |-> w.page]
    ELSE None

MoveCorner(g, corner, p) ==
    IF corner = "BottomRightCorner" THEN setBottomRight(g, p)
    ELSE IF corner = "BottomLeftCorner" THEN setBottomLeft(g, p)
    ELSE IF corner = "TopRightCorner" THEN setTopRight(g, p)
    ELSE IF corner = "TopLeftCorner" THEN setTopLeft(g, p)
    ELSE g

\* An exception that leaves a Python reimplementation of a Qt virtual:
\* PyQt5 prints it and goes on, or (5.5 and later) calls qFatal()
UnhandledOutcomes == {"printed", "aborted"}

mouseMoveEvent(i, corner, buttons, gpos) ==
    /\ pc = "idle"
    /\ i \in scene
    /\ LET parent == QObjectParent(QObjectParent(SizeGripOf(i, corner)))
       IN  IF buttons = "LeftButton"
           THEN IF parent = None
                THEN \* parent.geometry() raises AttributeError
                     /\ \E o \in UnhandledOutcomes :
                            pc' = IF o = "aborted" THEN "aborted" ELSE pc
                     /\ pages' = pages
                ELSE /\ pages' = [pages EXCEPT ![parent.page].geometry =
                                      MoveCorner(@, corner, gpos)]
                     /\ pc' = pc
           ELSE UNCHANGED <<pages, pc>>
    /\ last' = Event("mouseMoveEvent", i,
                     [corner |-> corner, buttons |-> buttons, pos |-> gpos,
                      before |-> pages[i].geometry])
    /\ UNCHANGED <<scene, url_input, current_page, item, spin_box>>

---------------------------------------------------------------------------
(* Canvas *)

\* Mutant: setPos is applied to every item of the scene, not to the new one
add_web_page_moveall(pgs, url, x, y) ==
    [i \in 1 .. Len(pgs) + 1 |->
        IF i <= Len(pgs) THEN [pgs[i] EXCEPT !.pos = <<x, y>>]
        ELSE [WebPageItem(url) EXCEPT !.pos = <<x, y>>]]

add_web_page(pgs, url, x, y) ==
    Append(pgs, [WebPageItem(url) EXCEPT !.pos = <<x, y>>])

\* ItemIsMovable: a drag of the item's body sets its position
ItemDrag(i, p) ==
    /\ pc = "idle"
    /\ i \in scene
    /\ pages[i].pos # p
    /\ pages' = [pages EXCEPT ![i].pos = p]
    /\ last' = Event("drag", i, 0)
    /\ UNCHANGED <<scene, url_input, current_page, pc, item, spin_box>>

---------------------------------------------------------------------------
(* BrowserCanvasApp *)

\* The user edits the toolbar's QLineEdit
TypeText(t) ==
    /\ pc = "idle"
    /\ url_input # t
    /\ url_input' = t
    /\ last' = Event("type", NoPage, 0)
    /\ UNCHANGED <<pages, scene, current_page, pc, item, spin_box>>

\* Mutant: the scheme is prefixed without looking at the text
add_new_page_url_always(text) == Https \o text

add_new_page_url(text) ==
    IF ~startswith(text, {Http, Https}) THEN Https \o text ELSE text

\* width, height: Canvas.width() and Canvas.height() at the time of the call
add_new_page(width, height) ==
    /\ pc = "idle"
    /\ Len(pages) < MaxPages
    /\ \E x \in 0 .. (width \div 2), y \in 0 .. (height \div 2) :
           pages' = add_web_page(pages, add_new_page_url(url_input), x, y)
    /\ scene' = scene \cup {Len(pages')}
    /\ url_input' = << >>
    /\ last' = Event("add_new_page", Len(pages'), url_input)
    /\ UNCHANGED <<current_page, pc, item, spin_box>>

\* Mutant: current_page is only set while it is still None
show_context_menu_page_once(cur, hit) ==
    IF cur = NoPage /\ hit # NoPage THEN hit ELSE cur

\* hit is scene.itemAt(...): a page of the scene, or NoPage
show_context_menu_page(cur, hit) == IF hit # NoPage THEN hit ELSE cur

show_context_menu(hit) ==
    /\ pc = "idle"
    /\ hit \in scene \cup {NoPage}
    /\ current_page' = show_context_menu_page(current_page, hit)
    /\ IF hit # NoPage
       THEN pc' = "menu" /\ item' = hit
       ELSE UNCHANGED <<pc, item>>
    /\ last' = Event("show_context_menu", hit, 0)
    /\ UNCHANGED <<pages, scene, url_input, spin_box>>

\* menu.exec_() returns with no action triggered
MenuDismiss ==
    /\ pc = "menu"
    /\ pc' = "idle"
    /\ item' = NoPage
    /\ last' = Event("dismiss", item, 0)
    /\ UNCHANGED <<pages, scene, url_input, current_page, spin_box>>

\* "Refresh Now": item.refresh_page
MenuRefreshNow ==
    /\ pc = "menu"
    /\ pages' = [pages EXCEPT ![item] = refresh_page(@)]
    /\ pc' = "idle"
    /\ item' = NoPage
    /\ last' = Event("refresh_now", item, 0)
    /\ UNCHANGED <<scene, url_input, current_page, spin_box>>

\* "Close Page": lambda: self.canvas.scene.removeItem(item)
close_page(p) == p

MenuClosePage ==
    /\ pc = "menu"
    /\ scene' = scene \ {item}
    /\ pages' = [pages EXCEPT ![item] = close_page(@)]
    /\ pc' = "idle"
    /\ item' = NoPage
    /\ last' = Event("close_page", item, 0)
    /\ UNCHANGED <<url_input, current_page, spin_box>>

\* "Auto-Refresh Settings...": show_refresh_settings up to dialog.exec_()
show_refresh_settings ==
    /\ pc = "menu"
    /\ IF current_page # NoPage
       THEN /\ pc' = "dialog"
            /\ spin_box' = QSpinBoxBound(pages[current_page].refresh_interval)
            /\ UNCHANGED item
       ELSE /\ pc' = "idle"
            /\ item' = NoPage
            /\ UNCHANGED spin_box
    /\ last' = Event("show_refresh_settings", current_page, 0)
    /\ UNCHANGED <<pages, scene, url_input, current_page>>

\* The user edits the spin box
DialogEdit(v) ==
    /\ pc = "dialog"
    /\ spin_box # QSpinBoxBound(v)
    /\ spin_box' = QSpinBoxBound(v)
    /\ last' = Event("edit", current_page, 0)
    /\ UNCHANGED <<pages, scene, url_input, current_page, pc, item>>

\* Mutant: the result of dialog.exec_() is not looked at
show_refresh_settings_apply_any(pgs, cur, res, interval) ==
    [pgs EXCEPT ![cur] = set_refresh_interval(@, interval)]

\* show_refresh_settings from the return of dialog.exec_()
show_refresh_settings_apply(pgs, cur, res, interval) ==
    IF res = "Accepted"
    THEN [pgs EXCEPT ![cur] = set_refresh_interval(@, interval)]
    ELSE pgs

DialogClose(res) ==
    /\ pc = "dialog"
    /\ pages' = show_refresh_settings_apply(pages, current_page, res, spin_box)
    /\ pc' = "idle"
    /\ item' = NoPage
    /\ spin_box' = 0
    /\ last' = Event(res, current_page,
                     [value |-> spin_box, hit |-> item,
                      before |-> pages[current_page].refresh_interval])
    /\ UNCHANGED <<scene, url_input, current_page>>

DialogAccept == DialogClose("Accepted")

DialogReject == DialogClose("Rejected")

---------------------------------------------------------------------------
(* Event loop and object lifetime *)

\* refresh_timer.timeout -> refresh_page, in whichever event loop is running
timeout(i) ==
    /\ pc # "aborted"
    /\ i \in DOMAIN pages
    /\ pages[i].alive
    /\ pages[i].refresh_timer # << >>
    /\ pages' = [pages EXCEPT ![i] = refresh_page(@)]
    /\ last' = Event("timeout", i, 0)
    /\ UNCHANGED <<scene, url_input, current_page, pc, item, spin_box>>

\* removeItem hands the item back to Python; it is deallocated, with its
\* QTimer, once neither current_page nor a menu's closure refers to it
Deallocate(i) ==
    /\ pc # "aborted"
    /\ i \in DOMAIN pages
    /\ pages[i].alive
    /\ i \notin scene
    /\ current_page # i
    /\ item # i
    /\ pages' = [pages EXCEPT ![i] = Deallocated]
    /\ last' = Event("deallocate", i, 0)
    /\ UNCHANGED <<scene, url_input, current_page, pc, item, spin_box>>

\* A direct call of WebPageItem.set_refresh_interval
CallSetRefreshInterval(i, seconds) ==
    /\ pc = "idle"
    /\ i \in DOMAIN pages
    /\ pages[i].alive
    /\ pages' = [pages EXCEPT ![i] = set_refresh_interval(@, seconds)]
    /\ last' = Event("set_refresh_interval", i, seconds)
    /\ UNCHANGED <<scene, url_input, current_page, pc, item, spin_box>>

---------------------------------------------------------------------------
(* Specifications *)

Init ==
    /\ pages = << >>
    /\ scene = {}
    /\ url_input = << >>
    /\ current_page = NoPage
    /\ pc = "idle"
    /\ item = NoPage
    /\ spin_box = 0
    /\ last = Event("init", NoPage, 0)

ContextMenu ==
    \/ \E hit \in scene \cup {NoPage} : show_context_menu(hit)
    \/ MenuDismiss
    \/ MenuClosePage

Settings(typed) ==
    \/ show_refresh_settings
    \/ \E v \in typed : DialogEdit(v)
    \/ DialogAccept
    \/ DialogReject

Refresh ==
    \/ MenuRefreshNow
    \/ \E i \in DOMAIN pages : timeout(i)

Resize(corners, points) ==
    \E i \in scene, c \in corners, b \in Buttons, p \in points :
        mouseMoveEvent(i, c, b, p)

\* The whole application
Next ==
    \/ \E t \in Texts : TypeText(t)
    \/ add_new_page(CanvasWidth, CanvasHeight)
    \/ \E i \in scene, p \in ScenePoints : ItemDrag(i, p)
    \/ Resize(Corners, GlobalPoints)
    \/ ContextMenu
    \/ Settings(TypedValues)
    \/ Refresh
    \/ \E i \in DOMAIN pages : Deallocate(i)

Spec == Init /\ [][Next]_vars

\* The URL field and the pages made from it, on a canvas with no extent
NextUrl ==
    \/ \E t \in UrlInputs : TypeText(t)
    \/ add_new_page(0, 0)
    \/ ContextMenu

SpecUrl == Init /\ [][NextUrl]_vars

\* Placement, dragging, resizing and removal
NextResize ==
    \/ add_new_page(CanvasWidth, CanvasHeight)
    \/ \E i \in scene, p \in ScenePoints : ItemDrag(i, p)
    \/ Resize(Corners, GlobalPoints)
    \/ ContextMenu

SpecResize == Init /\ [][NextResize]_vars

\* Every operation on an item
NextCanvas ==
    \/ add_new_page(CanvasWidth, CanvasHeight)
    \/ \E i \in scene, p \in ScenePoints : ItemDrag(i, p)
    \/ Resize({"BottomRightCorner"}, {<<0, 0>>})
    \/ ContextMenu
    \/ Settings({0, 5})
    \/ Refresh
    \/ \E i \in DOMAIN pages : Deallocate(i)

SpecCanvas == Init /\ [][NextCanvas]_vars

\* Refresh timers and item lifetime, on a canvas with no extent
NextLife ==
    \/ add_new_page(0, 0)
    \/ ContextMenu
    \/ Settings(TypedValues)
    \/ Refresh
    \/ \E i \in DOMAIN pages : Deallocate(i)

SpecLife == Init /\ [][NextLife]_vars

FairLife == SpecLife /\ \A i \in 1 .. MaxPages : WF_vars(timeout(i))

\* The same, with direct calls of set_refresh_interval
NextApi ==
    \/ NextLife
    \/ \E i \in DOMAIN pages, s \in ApiSeconds : CallSetRefreshInterval(i, s)

SpecApi == Init /\ [][NextApi]_vars

---------------------------------------------------------------------------
(* Properties *)

Live == {i \in DOMAIN pages : pages[i].alive}
Removed == {i \in Live : i \notin scene}
RefreshOps == {"timeout", "refresh_now"}

\* C1: once Close Page has removed an item from the scene, refresh_page is
\* never called on it again: every refresh_page call (a timer's timeout or
\* Refresh Now) is on an item of the scene.
C1_NoRefreshAfterRemove ==
    last.op \in RefreshOps => last.page \in scene

\* C2: for every page item, its refresh timer is running if and only if its
\* refresh_interval is greater than 0.
C2_TimerIffInterval ==
    \A i \in Live :
        (pages[i].refresh_timer # << >>) <=> (pages[i].refresh_interval > 0)

C2_Witness ==
    /\ last.op = "timeout"
    /\ pages[last.page].refresh_interval > 0
    /\ \E j \in Live : pages[j].refresh_interval = 0 /\ pages[j].refresh_timer = << >>

\* C3: the refresh_interval of every page item is in [0, 3600], whatever
\* integers set_refresh_interval is called with and whatever is confirmed in
\* the settings dialog.
C3_IntervalInRange ==
    \A i \in Live : pages[i].refresh_interval \in SpinBoxMinimum .. SpinBoxMaximum

\* C4: closing the settings dialog by reject changes no page item (interval,
\* timer and everything else of every item) and not the scene, whatever
\* was typed into the field.
C4_CancelKeepsState ==
    [][(pc = "dialog" /\ last'.op = "Rejected") => (pages' = pages /\ scene' = scene)]_vars

C4_Witness ==
    /\ last.op = "Rejected"
    /\ last.arg.value # last.arg.before
    /\ last.arg.before > 0
    /\ pages[last.page].refresh_interval = last.arg.before
    /\ pages[last.page].refresh_timer = <<last.arg.before * MsPerSecond>>

\* C5: an item never has more than one running timer, a running timer's
\* period is the interval last set, and after set_refresh_interval(s) with
\* s > 0 there is exactly one timer, of period s seconds, also when the
\* interval was s before.
C5_OneTimer ==
    /\ \A i \in Live :
          /\ Len(pages[i].refresh_timer) <= 1
          /\ \A k \in DOMAIN pages[i].refresh_timer :
                 pages[i].refresh_timer[k] = pages[i].refresh_interval * MsPerSecond
    /\ (last.op = "Accepted" /\ last.arg.value > 0) =>
           pages[last.page].refresh_timer = <<last.arg.value * MsPerSecond>>

C5_Witness ==
    /\ last.op = "Accepted"
    /\ last.arg.value = 5
    /\ last.arg.before = 5
    /\ pages[last.page].refresh_timer = <<5 * MsPerSecond>>

C6_Stored ==
    last.op = "Accepted" =>
        /\ last.arg.value \in SpinBoxMinimum .. SpinBoxMaximum
        /\ pages[last.page].refresh_interval = last.arg.value

C6_NoFireAtZero ==
    last.op = "timeout" => pages[last.page].refresh_interval > 0

C6_Holds(i, s) ==
    i \in Live /\ pages[i].refresh_interval = s

\* C6: after set_refresh_interval(s), s in [0, 3600], the stored interval is
\* s; no timeout refreshes an item whose interval is 0; and an item that
\* stays alive with the same interval s > 0 is refreshed by its timer again
\* and again.
C6_SetThenFire ==
    /\ [](C6_Stored /\ C6_NoFireAtZero)
    /\ \A i \in 1 .. MaxPages : \A s \in {5, SpinBoxMaximum} :
           ([]<>(~C6_Holds(i, s))) \/ ([]<><<timeout(i)>>_vars)

C6_Witness ==
    /\ last.op = "timeout"
    /\ last.page \in scene
    /\ pages[last.page].refresh_interval = 5
    /\ pages[last.page].reloads = 0

HttpsExampleCom ==
    <<"h", "t", "t", "p", "s", ":", "/", "/",
      "e", "x", "a", "m", "p", "l", "e", ".", "c", "o", "m">>

C7_HasScheme(t) ==
    \/ Len(t) >= 7 /\ [k \in 1 .. 7 |-> t[k]] = Http
    \/ Len(t) >= 8 /\ [k \in 1 .. 8 |-> t[k]] = Https

\* C7: add_new_page makes an item whose url is the text of the URL field if
\* that starts with "http://" or "https://", and "https://" followed by the
\* text otherwise, with refresh_interval 0; "example.com" gives
\* "https://example.com".
C7_SchemeDefaulted ==
    last.op = "add_new_page" =>
        LET t == last.arg
            p == pages[last.page]
        IN  /\ last.page \in scene
            /\ p.refresh_interval = 0
            /\ p.refresh_timer = << >>
            /\ C7_HasScheme(t) => p.url = t
            /\ ~C7_HasScheme(t) => (Len(p.url) = 8 + Len(t)
                                      /\ SubSeq(p.url, 1, 8) = Https
                                      /\ SubSeq(p.url, 9, Len(p.url)) = t)
            /\ t = ExampleCom => p.url = HttpsExampleCom

C7_Witness ==
    /\ last.op = "add_new_page"
    /\ last.arg = ExampleCom
    /\ pages[last.page].url = HttpsExampleCom
    /\ \E j \in scene : pages[j].url = HttpA

C8_Expected(g, corner, p) ==
    CASE corner = "BottomRightCorner" -> [x1 |-> g.x1, y1 |-> g.y1, x2 |-> p[1], y2 |-> p[2]]
      [] corner = "BottomLeftCorner" -> [x1 |-> p[1], y1 |-> g.y1, x2 |-> g.x2, y2 |-> p[2]]
      [] corner = "TopRightCorner" -> [x1 |-> g.x1, y1 |-> p[2], x2 |-> p[1], y2 |-> g.y2]
      [] corner = "TopLeftCorner" -> [x1 |-> p[1], y1 |-> p[2], x2 |-> g.x2, y2 |-> g.y2]

\* C8: a mouse move on a grip with exactly the left button held moves the
\* grip's corner of the geometry to the pointer position and leaves the
\* opposite corner where it was; with any other buttons the geometry is
\* unchanged.
C8_ResizeLaw ==
    last.op = "mouseMoveEvent" =>
        pages[last.page].geometry =
            IF last.arg.buttons = "LeftButton"
            THEN C8_Expected(last.arg.before, last.arg.corner, last.arg.pos)
            ELSE last.arg.before

C9_Changed(i) ==
    pages'[i] # pages[i] \/ ((i \in scene') # (i \in scene))

C10_SettingsOnHitItem ==
    /\ pc \in {"menu", "dialog"} => (current_page = item /\ item \in scene)
    /\ last.op = "Accepted" => (last.page = last.arg.hit /\ last.page \in scene)

C10_Witness ==
    /\ last.op = "Accepted"
    /\ last.arg.value > 0
    /\ pages[last.page].refresh_interval = last.arg.value
    /\ \E j \in Removed : j # last.page

=============================================================================
